---------------------------- MODULE Spec2Model ----------------------------
(***************************************************************************)
(* A model of the concurrent web crawler of src/07-crawl/main.go:          *)
(* the URLFrontier (dedup set, depth map, bounded channel), the            *)
(* per-host rate-limited Fetcher, and the Crawler's worker pool with its   *)
(* result consumer.                                                        *)
(*                                                                         *)
(* Three specifications share its variables:                               *)
(*   FrontierSpec  goroutines calling AddURL / GetURL on one URLFrontier   *)
(*   FetchSpec     goroutines calling Fetch on one Fetcher, with time      *)
(*   CrawlSpec     one call of Crawler.Crawl (FairCrawlSpec adds the       *)
(*                 fairness of the Go scheduler, StalledSinkSpec leaves    *)
(*                 the result consumer unscheduled)                        *)
(*                                                                         *)
(* Two other programs of the repository have their own variables and       *)
(* specifications:                                                         *)
(*   EmailSpec     the RabbitMQ email queue of src/05-message-broker       *)
(*   CollySpec     the Colly crawler of src/08-advanced-crawler            *)
(***************************************************************************)
EXTENDS Integers, Sequences, FiniteSets, Bags, TLC

(***************************************************************************)
(* Bounds of the model.                                                    *)
(***************************************************************************)
\* capacity of the pending-URL channel (1000 in NewURLFrontier)
QueueCap == 2
\* capacity of the results channel (100 in Crawl)
ResultsCap == 2
\* largest maxDepth a frontier is constructed with, and largest depth offered
MaxDepthBound == 2
\* largest worker pool (and number of goroutines calling the frontier/fetcher)
MaxWorkers == 2
\* the fetcher's delay, in clock ticks
Delay == 1

Goroutines == 1..MaxWorkers

(***************************************************************************)
(* URLs.  A URL string is represented by its syntactic parts: the scheme   *)
(* as spelled, the host[:port] text and the path.                          *)
(***************************************************************************)
Str(s, h, p) == [scheme |-> s, host |-> h, path |-> p]

\* the empty string, returned by GetURL on an empty queue
EmptyString == Str("", "", "")

RootURL == Str("http", "a", "/")
RootUpper == Str("HTTP", "a", "/")
Child1 == Str("http", "a:8080", "/1")
Child2 == Str("http", "b", "/2")
BadURL == Str("http", "a b", "/")

RawURLs == {RootURL, RootUpper, Child1, Child2, BadURL}

\* strings.ToLower on a scheme
ToLower(s) == CASE s = "HTTP" -> "http" [] OTHER -> s

\* url.Parse: fails on a host with an invalid character, lower-cases the scheme
url_Parse(rawURL) ==
  IF rawURL.host = "a b"
    THEN [err |-> TRUE]
    ELSE [err |-> FALSE, Scheme |-> ToLower(rawURL.scheme),
          Host |-> rawURL.host, Path |-> rawURL.path]

\* (*url.URL).String: reassembles scheme://host/path
URL_String(u) == Str(u.Scheme, u.Host, u.Path)

\* (*url.URL).Hostname: the host without its port
URL_Hostname(u) ==
  CASE u.Host = "a:8080" -> "a"
    [] OTHER -> u.Host

\* the normalized form of every raw URL that parses
NormURLs == {URL_String(url_Parse(r)) : r \in {x \in RawURLs : ~url_Parse(x).err}}

Hostnames == {URL_Hostname(url_Parse(u)) : u \in NormURLs}

(***************************************************************************)
(* Go maps: a function on the set of keys present; a lookup of an absent   *)
(* key yields the zero value.                                              *)
(***************************************************************************)
EmptyMap == [k \in {} |-> 0]
MapPut(m, k, v) == [x \in (DOMAIN m) \cup {k} |-> IF x = k THEN v ELSE m[x]]
MapHas(m, k) == k \in DOMAIN m
MapBool(m, k) == IF k \in DOMAIN m THEN m[k] ELSE FALSE
MapInt(m, k) == IF k \in DOMAIN m THEN m[k] ELSE 0

Count(seq, x) == Cardinality({i \in DOMAIN seq : seq[i] = x})

None == 0 - 1

VARIABLES
  \* URLFrontier
  urls,        \* chan string, capacity QueueCap: the pending queue
  urlsClosed,  \* whether uf.urls is closed
  visited,     \* map[string]bool
  depth,       \* map[string]int
  maxDepth,    \* int, set by NewURLFrontier
  \* Fetcher
  rateLimiter, \* map[string]time.Time, kept as the time elapsed since the
               \* stored instant (time.Since of it), counted up to Delay
  fmu,         \* f.mu: the goroutine holding it, 0 when free
  \* goroutines (callers of the frontier or the fetcher, or the workers)
  pc,          \* where each goroutine is
  got,         \* GetURL's local url, between its receive and its depth read
  ret,         \* the worker's url, depth, ok: what its GetURL returned
  result,      \* the *CrawlResult of the goroutine's Fetch, the worker's result
  li,          \* the worker's position in its loop over links
  \* Crawler.Crawl
  seed,        \* startURL
  workers,     \* c.workers
  crawlPc,     \* where Crawl is
  crawlErr,    \* what Crawl returned: "nil" or the parse error
  wg,          \* the sync.WaitGroup counter
  results,     \* chan *CrawlResult, capacity ResultsCap
  closed,      \* whether results is closed
  cpc,         \* where processResults is
  indexed,     \* the bag of results handed to Indexer.Index
  \* the environment
  web,         \* what the HTTP server answers for each URL
  \* history
  enqCount,    \* per normalized URL: how often it was sent on urls
  firstOffer,  \* per normalized URL: depth of the first AddURL below maxDepth
  lastCall,    \* the last call of AddURL, GetURL or Fetch: its arguments and
               \* what it met, or what it returned
  fetchCount,  \* per normalized URL: how often a worker called Fetch on it
  discarded,   \* the URLs a worker's retry poll received and threw away
  everFull,    \* the channels that ever held their full capacity
  earlyExit,   \* whether a worker exited while another held a URL
  reqAge,      \* per hostname: time since the last HTTP request was issued
  reqGap       \* per hostname: the shortest time between two requests

frontierVars == <<urls, urlsClosed, visited, depth, maxDepth>>
fetcherVars == <<rateLimiter, fmu>>
goVars == <<pc, got, ret, result, li>>
crawlVars == <<seed, workers, crawlPc, crawlErr, wg, results, closed, cpc, indexed>>
histVars == <<enqCount, firstOffer, lastCall, fetchCount, discarded, everFull,
             earlyExit, reqAge, reqGap>>
crawlerVars == <<frontierVars, fetcherVars, goVars, crawlVars, web, histVars>>

VARIABLES
  \* the email queue of src/05-message-broker/email-queue (RabbitMQ)
  primary,     \* queue emails.primary, bound to exchange emails by "send"
  retryQueue,  \* queue emails.retry, bound to exchange emails.dlx by "retry"
  dlq,         \* queue emails.dlq, bound to exchange emails.dlx by "dead"
  jobs,        \* how many jobs the producer has published
  \* history
  failed,      \* per message: how many SMTP sends of it failed
  retried      \* per message: how often it was published to emails.retry

mailVars == <<primary, retryQueue, dlq, jobs, failed, retried>>

VARIABLES
  \* the Colly crawler of src/08-advanced-crawler/crawler.go
  keywords,       \* ac.keywords
  maxPages,       \* ac.maxPages
  allowedDomains, \* ac.allowedDomains, also the collector's AllowedDomains
  pageCount,      \* ac.pageCount
  visitedURLs,    \* ac.visitedURLs, the set of its keys
  acMu,           \* ac.mu is held
  job,            \* ac.job: Status, Progress, TotalResults, Results
  startDomains,   \* the domains argument of Start
  acPc,           \* where the goroutine running Start is
  domIdx,         \* how many domains Start's loop has visited
  request,        \* the URL of the response whose callbacks are running
  linkIdx,        \* the a[href] element of that response reached
  collyVisited,   \* the collector's store of requested URLs
  site            \* the pages the web servers answer with

collyVars == <<keywords, maxPages, allowedDomains, pageCount, visitedURLs, acMu, job,
               startDomains, acPc, domIdx, request, linkIdx, collyVisited, site>>

\* the state of the programs beside the one a specification runs
otherVars == <<mailVars, collyVars>>
vars == <<crawlerVars, otherVars>>

\* the message broker before any message: the queues declareTopology declares
NoMail ==
  /\ primary = <<>>
  /\ retryQueue = <<>>
  /\ dlq = <<>>
  /\ jobs = 0
  /\ failed = EmptyMap
  /\ retried = EmptyMap

\* no AdvancedCrawler has been constructed
NoColly ==
  /\ keywords = <<>>
  /\ maxPages = 0
  /\ allowedDomains = <<>>
  /\ pageCount = 0
  /\ visitedURLs = {}
  /\ acMu = FALSE
  /\ job = [Status |-> "", Progress |-> 0, TotalResults |-> 0, Results |-> <<>>]
  /\ startDomains = <<>>
  /\ acPc = "off"
  /\ domIdx = 0
  /\ request = <<>>
  /\ linkIdx = 0
  /\ collyVisited = {}
  /\ site = EmptyMap

\* the other programs of the repository have not been started
OthersOff == NoMail /\ NoColly

(***************************************************************************)
(* URLFrontier                                                             *)
(***************************************************************************)
\* NewURLFrontier(md)
NewURLFrontier(md) ==
  /\ urls = <<>>
  /\ urlsClosed = FALSE
  /\ visited = EmptyMap
  /\ depth = EmptyMap
  /\ maxDepth = md

\* AddURL with the visited check left out
AddURL_NoDedup(rawURL, currentDepth) ==
  LET parsedURL == url_Parse(rawURL) IN
  IF parsedURL.err
    THEN UNCHANGED <<urls, visited, depth>>
    ELSE LET normalizedURL == URL_String(parsedURL) IN
      IF currentDepth >= maxDepth
        THEN UNCHANGED <<urls, visited, depth>>
        ELSE /\ visited' = MapPut(visited, normalizedURL, TRUE)
             /\ depth' = MapPut(depth, normalizedURL, currentDepth)
             /\ IF Len(urls) < QueueCap
                  THEN urls' = Append(urls, normalizedURL)
                  ELSE UNCHANGED urls

\* AddURL revising the recorded depth when a shorter path is offered
AddURL_ShortestPath(rawURL, currentDepth) ==
  LET parsedURL == url_Parse(rawURL) IN
  IF parsedURL.err
    THEN UNCHANGED <<urls, visited, depth>>
    ELSE LET normalizedURL == URL_String(parsedURL) IN
      IF currentDepth >= maxDepth
        THEN UNCHANGED <<urls, visited, depth>>
        ELSE IF MapBool(visited, normalizedURL)
          THEN /\ depth' = IF currentDepth < depth[normalizedURL]
                             THEN MapPut(depth, normalizedURL, currentDepth)
                             ELSE depth
               /\ UNCHANGED <<urls, visited>>
          ELSE /\ visited' = MapPut(visited, normalizedURL, TRUE)
               /\ depth' = MapPut(depth, normalizedURL, currentDepth)
               /\ IF Len(urls) < QueueCap
                    THEN urls' = Append(urls, normalizedURL)
                    ELSE UNCHANGED urls

\* AddURL rejecting only depths above maxDepth
AddURL_DepthOffByOne(rawURL, currentDepth) ==
  LET parsedURL == url_Parse(rawURL) IN
  IF parsedURL.err
    THEN UNCHANGED <<urls, visited, depth>>
    ELSE LET normalizedURL == URL_String(parsedURL) IN
      IF MapBool(visited, normalizedURL) \/ currentDepth > maxDepth
        THEN UNCHANGED <<urls, visited, depth>>
        ELSE /\ visited' = MapPut(visited, normalizedURL, TRUE)
             /\ depth' = MapPut(depth, normalizedURL, currentDepth)
             /\ IF Len(urls) < QueueCap
                  THEN urls' = Append(urls, normalizedURL)
                  ELSE UNCHANGED urls

\* AddURL with a blocking send on uf.urls
AddURL_BlockingSend(rawURL, currentDepth) ==
  LET parsedURL == url_Parse(rawURL) IN
  IF parsedURL.err
    THEN UNCHANGED <<urls, visited, depth>>
    ELSE LET normalizedURL == URL_String(parsedURL) IN
      IF MapBool(visited, normalizedURL) \/ currentDepth >= maxDepth
        THEN UNCHANGED <<urls, visited, depth>>
        ELSE /\ Len(urls) < QueueCap
             /\ visited' = MapPut(visited, normalizedURL, TRUE)
             /\ depth' = MapPut(depth, normalizedURL, currentDepth)
             /\ urls' = Append(urls, normalizedURL)

\* AddURL marking a URL visited only when the send succeeds
AddURL_VisitOnEnqueue(rawURL, currentDepth) ==
  LET parsedURL == url_Parse(rawURL) IN
  IF parsedURL.err
    THEN UNCHANGED <<urls, visited, depth>>
    ELSE LET normalizedURL == URL_String(parsedURL) IN
      IF MapBool(visited, normalizedURL) \/ currentDepth >= maxDepth
        THEN UNCHANGED <<urls, visited, depth>>
        ELSE IF Len(urls) < QueueCap
               THEN /\ visited' = MapPut(visited, normalizedURL, TRUE)
                    /\ depth' = MapPut(depth, normalizedURL, currentDepth)
                    /\ urls' = Append(urls, normalizedURL)
               ELSE UNCHANGED <<urls, visited, depth>>

\* AddURL marking the URL visited before it looks at the depth
AddURL_VisitBeforeDepthCheck(rawURL, currentDepth) ==
  LET parsedURL == url_Parse(rawURL) IN
  IF parsedURL.err
    THEN UNCHANGED <<urls, visited, depth>>
    ELSE LET normalizedURL == URL_String(parsedURL) IN
      IF MapBool(visited, normalizedURL)
        THEN UNCHANGED <<urls, visited, depth>>
        ELSE /\ visited' = MapPut(visited, normalizedURL, TRUE)
             /\ IF currentDepth >= maxDepth
                  THEN UNCHANGED <<urls, depth>>
                  ELSE /\ depth' = MapPut(depth, normalizedURL, currentDepth)
                       /\ IF Len(urls) < QueueCap
                            THEN urls' = Append(urls, normalizedURL)
                            ELSE UNCHANGED urls

\* whether AddURL(rawURL, currentDepth) reaches its send with uf.urls closed:
\* a send on a closed channel is a run-time panic, in a select too
AddURL_Panics(rawURL, currentDepth) ==
  LET parsedURL == url_Parse(rawURL) IN
  /\ urlsClosed
  /\ ~parsedURL.err
  /\ ~MapBool(visited, URL_String(parsedURL))
  /\ currentDepth < maxDepth

\* URLFrontier.AddURL, the whole body under uf.mu: parse and normalize; return
\* if visited or too deep; mark visited, record the depth, non-blocking send
\* (nothing is sent on a closed channel: the caller panics, AddURL_Panics)
AddURL(rawURL, currentDepth) ==
  LET parsedURL == url_Parse(rawURL) IN
  IF parsedURL.err
    THEN UNCHANGED <<urls, visited, depth>>
    ELSE LET normalizedURL == URL_String(parsedURL) IN
      IF MapBool(visited, normalizedURL) \/ currentDepth >= maxDepth
        THEN UNCHANGED <<urls, visited, depth>>
        ELSE /\ visited' = MapPut(visited, normalizedURL, TRUE)
             /\ depth' = MapPut(depth, normalizedURL, currentDepth)
             /\ IF ~urlsClosed /\ Len(urls) < QueueCap
                  THEN urls' = Append(urls, normalizedURL)
                  ELSE UNCHANGED urls

\* history of an AddURL call: what it sent, the first depth offered below
\* maxDepth for the URL (whatever the visited set says), and what the call met
AddURLHistory(rawURL, currentDepth) ==
  LET p == url_Parse(rawURL) IN
  /\ enqCount' = [u \in NormURLs |-> enqCount[u] + Count(urls', u) - Count(urls, u)]
  /\ firstOffer' =
       IF ~p.err /\ currentDepth < maxDepth /\ firstOffer[URL_String(p)] = None
         THEN [firstOffer EXCEPT ![URL_String(p)] = currentDepth]
         ELSE firstOffer
  /\ lastCall' = [op |-> "AddURL",
                  err |-> p.err,
                  url |-> IF p.err THEN EmptyString ELSE URL_String(p),
                  dup |-> ~p.err /\ MapBool(visited, URL_String(p)),
                  depth |-> currentDepth,
                  full |-> Len(urls) = QueueCap]
  /\ everFull' = IF Len(urls') = QueueCap THEN everFull \cup {"urls"} ELSE everFull

\* what GetURL returns from its default branch
GetURL_Empty == [url |-> EmptyString, depth |-> 0, ok |-> FALSE]

\* what GetURL returns after its depth read
GetURL_Return(g) == [url |-> got[g], depth |-> MapInt(depth, got[g]), ok |-> TRUE]

\* whether the receive case of GetURL's select can proceed: a URL is buffered,
\* or uf.urls is closed (a receive from a closed channel never blocks)
urls_Ready == Len(urls) > 0 \/ urlsClosed

\* GetURL, first half: the non-blocking receive from uf.urls; a closed channel
\* with nothing buffered yields the zero value of string; on an empty open
\* channel GetURL returns GetURL_Empty and the caller goes on at emptyPc
GetURL_Receive(g, emptyPc) ==
  IF Len(urls) > 0
    THEN /\ got' = [got EXCEPT ![g] = Head(urls)]
         /\ urls' = Tail(urls)
         /\ pc' = [pc EXCEPT ![g] = "getDepth"]
    ELSE IF urlsClosed
      THEN /\ got' = [got EXCEPT ![g] = EmptyString]
           /\ pc' = [pc EXCEPT ![g] = "getDepth"]
           /\ UNCHANGED urls
      ELSE /\ pc' = [pc EXCEPT ![g] = emptyPc]
           /\ UNCHANGED <<urls, got>>

\* URLFrontier.Close: close(uf.urls); closing a closed channel is a run-time
\* panic of the calling goroutine
Close(g) ==
  IF urlsClosed
    THEN /\ pc' = [pc EXCEPT ![g] = "panic"]
         /\ UNCHANGED urlsClosed
    ELSE /\ urlsClosed' = TRUE
         /\ UNCHANGED pc

\* GetURL, second half: the depth read under uf.mu.RLock; GetURL returns
\* GetURL_Return and the caller goes on at okPc
GetURL_Depth(g, okPc) ==
  /\ pc[g] = "getDepth"
  /\ pc' = [pc EXCEPT ![g] = okPc]
  /\ got' = [got EXCEPT ![g] = EmptyString]

(***************************************************************************)
(* CrawlResult and the HTTP server                                         *)
(***************************************************************************)
StatusPending == 0
StatusFetched == 1
StatusError == 2
StatusRedirect == 3

\* &CrawlResult{URL: rawURL, Status: StatusPending}; Content is the body,
\* represented by the href values of its <a> elements
NewResult(rawURL) ==
  [URL |-> rawURL, Status |-> StatusPending, Content |-> <<>>, Links |-> <<>>,
   Error |-> "nil", StatusCode |-> 0, RedirectURL |-> EmptyString]

NoResult == NewResult(EmptyString)

\* what the HTTP server answers to a GET: a status code, a Location header
\* and a body (or no answer at all, or a body that breaks off)
Page(hrefs) == [kind |-> "ok", code |-> 200, body |-> hrefs, location |-> EmptyString]
NotFound(hrefs) == [kind |-> "ok", code |-> 404, body |-> hrefs, location |-> EmptyString]
Moved(to) == [kind |-> "ok", code |-> 301, body |-> <<to>>, location |-> to]
Choices(to) == [kind |-> "ok", code |-> 300, body |-> <<to>>, location |-> to]
Unreachable == [kind |-> "neterr", code |-> 0, body |-> <<>>, location |-> EmptyString]
Truncated == [kind |-> "readerr", code |-> 200, body |-> <<>>, location |-> EmptyString]

MailLink == Str("mailto", "", "x")

\* a root page with two links, the linked pages without links
WebTree ==
  (RootURL :> Page(<<Child1, Child2>>)) @@ (Child1 :> Page(<<>>)) @@ (Child2 :> Page(<<>>))
\* a root page linking to itself (spelled in upper case), to a mail address,
\* to a malformed URL and twice to one page; that page links back and on to
\* one whose body cannot be read
WebLoop ==
  (RootURL :> Page(<<RootUpper, MailLink, Child1, BadURL, Child1>>))
  @@ (Child1 :> Page(<<RootURL, Child2>>)) @@ (Child2 :> Truncated)
\* a root page linking, twice each, to an unreachable page and to one that
\* answers 301
WebMoved ==
  (RootURL :> Page(<<Child2, Child1, Child2, Child1>>))
  @@ (Child1 :> Moved(Child2)) @@ (Child2 :> Unreachable)

\* a root page answered 404 with a body of two links: to a page that answers
\* 300 with a Location header, and to one that answers 301 back to the root
WebCodes ==
  (RootURL :> NotFound(<<Child1, Child2>>))
  @@ (Child1 :> Choices(Child2)) @@ (Child2 :> Moved(RootURL))
\* no host answers
WebDown ==
  (RootURL :> Unreachable) @@ (Child1 :> Unreachable) @@ (Child2 :> Unreachable)

Webs == {WebTree, WebLoop, WebMoved, WebCodes, WebDown}

(***************************************************************************)
(* Fetcher                                                                 *)
(***************************************************************************)
NewFetcher ==
  /\ rateLimiter = EmptyMap
  /\ fmu = 0

Min(a, b) == IF a < b THEN a ELSE b

\* one unit of time passes for every stored instant in m
Aged(m) == [h \in DOMAIN m |-> Min(m[h] + 1, Delay)]

\* Fetch's result after its first lines: StatusPending, or StatusError with
\* the parse error
Fetch_Start(rawURL) ==
  IF url_Parse(rawURL).err
    THEN [NewResult(rawURL) EXCEPT !.Status = StatusError, !.Error = "parse"]
    ELSE NewResult(rawURL)

\* Fetch taking f.mu before it parses the URL
Fetch_Enter_LockBeforeParse(g, rawURL, retPc) ==
  LET parsedURL == url_Parse(rawURL) IN
  /\ fmu = 0
  /\ IF parsedURL.err
       THEN /\ pc' = [pc EXCEPT ![g] = retPc]
            /\ UNCHANGED <<rateLimiter, fmu>>
       ELSE LET hostname == URL_Hostname(parsedURL) IN
            IF MapHas(rateLimiter, hostname) /\ rateLimiter[hostname] < Delay
              THEN /\ fmu' = g
                   /\ pc' = [pc EXCEPT ![g] = "fetchSleep"]
                   /\ UNCHANGED rateLimiter
              ELSE /\ rateLimiter' = MapPut(rateLimiter, hostname, 0)
                   /\ pc' = [pc EXCEPT ![g] = "fetchRequest"]
                   /\ UNCHANGED fmu

\* Fetch, from its start to f.mu.Unlock() or to the time.Sleep under f.mu:
\* a URL that does not parse returns at once (the caller goes on at retPc);
\* otherwise take f.mu, and either sleep (the last request to the host is
\* less than Delay ago) or record time.Now() for the host and unlock
Fetch_Enter(g, rawURL, retPc) ==
  LET parsedURL == url_Parse(rawURL) IN
  IF parsedURL.err
    THEN /\ pc' = [pc EXCEPT ![g] = retPc]
         /\ UNCHANGED <<rateLimiter, fmu>>
    ELSE LET hostname == URL_Hostname(parsedURL) IN
         /\ fmu = 0
         /\ IF MapHas(rateLimiter, hostname) /\ rateLimiter[hostname] < Delay
              THEN /\ fmu' = g
                   /\ pc' = [pc EXCEPT ![g] = "fetchSleep"]
                   /\ UNCHANGED rateLimiter
              ELSE /\ rateLimiter' = MapPut(rateLimiter, hostname, 0)
                   /\ pc' = [pc EXCEPT ![g] = "fetchRequest"]
                   /\ UNCHANGED fmu

\* Fetch: time.Sleep(f.delay - time.Since(lastRequest)) is over, record
\* time.Now() for the host and unlock
Fetch_Wake(g) ==
  LET hostname == URL_Hostname(url_Parse(result[g].URL)) IN
  /\ pc[g] = "fetchSleep"
  /\ rateLimiter[hostname] >= Delay
  /\ rateLimiter' = MapPut(rateLimiter, hostname, 0)
  /\ fmu' = 0
  /\ pc' = [pc EXCEPT ![g] = "fetchRequest"]

\* the status codes on which http.Client, built without a CheckRedirect,
\* issues a further request to the Location header
RedirectCodes == {301, 302, 303, 307, 308}

\* f.client.Do(req) for a GET of u: the server's answer, or, when that is a
\* redirect with a Location header, what the request to the Location yields;
\* the client stops with an error after 10 requests or on a Location that
\* does not parse
RECURSIVE client_Do(_, _)
client_Do(u, requests) ==
  LET resp == web[u] IN
  IF resp.kind = "ok" /\ resp.code \in RedirectCodes /\ resp.location # EmptyString
    THEN IF requests >= 10 \/ url_Parse(resp.location).err
           THEN Unreachable
           ELSE client_Do(URL_String(url_Parse(resp.location)), requests + 1)
    ELSE resp

\* Fetch returning on a failed request or a failed read of the body without
\* setting the status
Fetch_Response_ErrorPending(g) ==
  LET resp == client_Do(URL_String(url_Parse(result[g].URL)), 1) IN
  IF resp.kind = "neterr"
    THEN [result[g] EXCEPT !.Error = "net"]
  ELSE IF resp.code >= 300 /\ resp.code < 400
    THEN [result[g] EXCEPT !.StatusCode = resp.code, !.Status = StatusRedirect,
                           !.RedirectURL = resp.location]
  ELSE IF resp.kind = "readerr"
    THEN [result[g] EXCEPT !.StatusCode = resp.code, !.Error = "read"]
  ELSE [result[g] EXCEPT !.StatusCode = resp.code, !.Content = resp.body,
                         !.Status = StatusFetched]

\* Fetch's result after client.Do: the classification of the response and
\* the read of the body
Fetch_Response(g) ==
  LET resp == client_Do(URL_String(url_Parse(result[g].URL)), 1) IN
  IF resp.kind = "neterr"
    THEN [result[g] EXCEPT !.Status = StatusError, !.Error = "net"]
  ELSE IF resp.code >= 300 /\ resp.code < 400
    THEN [result[g] EXCEPT !.StatusCode = resp.code, !.Status = StatusRedirect,
                           !.RedirectURL = resp.location]
  ELSE IF resp.kind = "readerr"
    THEN [result[g] EXCEPT !.StatusCode = resp.code, !.Status = StatusError,
                           !.Error = "read"]
  ELSE [result[g] EXCEPT !.StatusCode = resp.code, !.Content = resp.body,
                         !.Status = StatusFetched]

\* Fetch, after the unlock: the GET request is issued and answered; Fetch
\* returns Fetch_Response and the caller goes on at retPc
Fetch_Request(g, retPc) ==
  /\ pc[g] = "fetchRequest"
  /\ pc' = [pc EXCEPT ![g] = retPc]
  /\ UNCHANGED <<rateLimiter, fmu>>

\* time passes: every stored instant is one unit further back
Tick ==
  rateLimiter' = Aged(rateLimiter)

(***************************************************************************)
(* Parser                                                                  *)
(***************************************************************************)
\* Parser.Parse / extractLinks: every href that resolves, with scheme http or
\* https, in document order, as resolvedURL.String()
RECURSIVE extractLinks(_)
extractLinks(hrefs) ==
  IF hrefs = <<>> THEN <<>>
  ELSE LET resolvedURL == url_Parse(Head(hrefs)) IN
       IF ~resolvedURL.err /\ resolvedURL.Scheme \in {"http", "https"}
         THEN <<URL_String(resolvedURL)>> \o extractLinks(Tail(hrefs))
         ELSE extractLinks(Tail(hrefs))

Parser_Parse(content, currentURL) ==
  IF url_Parse(currentURL).err THEN <<>> ELSE extractLinks(content)

(***************************************************************************)
(* Crawler                                                                 *)
(***************************************************************************)
Seeds == {RootUpper, BadURL}

\* the state before Crawl is called: NewCrawler(md, n, Delay)
NewCrawler(md, n) ==
  /\ NewURLFrontier(md)
  /\ NewFetcher
  /\ workers = n
  /\ crawlPc = "start"
  /\ crawlErr = "nil"
  /\ wg = 0
  /\ results = <<>>
  /\ closed = FALSE
  /\ cpc = "off"
  /\ indexed = EmptyBag

NoGoroutines ==
  /\ pc = [g \in Goroutines |-> "off"]
  /\ got = [g \in Goroutines |-> EmptyString]
  /\ ret = [g \in Goroutines |-> GetURL_Empty]
  /\ result = [g \in Goroutines |-> NoResult]
  /\ li = [g \in Goroutines |-> 0]

NoCall == [op |-> "none"]

NoHistory ==
  /\ enqCount = [u \in NormURLs |-> 0]
  /\ firstOffer = [u \in NormURLs |-> None]
  /\ lastCall = NoCall
  /\ fetchCount = [u \in NormURLs |-> 0]
  /\ discarded = {}
  /\ everFull = {}
  /\ earlyExit = FALSE
  /\ reqAge = EmptyMap
  /\ reqGap = EmptyMap

\* Crawl going on without looking at NewParser's error
Crawl_Start_NoSeedCheck ==
  /\ crawlPc = "start"
  /\ AddURL(seed, 0)
  /\ AddURLHistory(seed, 0)
  /\ wg' = workers
  /\ pc' = [g \in Goroutines |-> IF g <= workers THEN "poll" ELSE "off"]
  /\ cpc' = "running"
  /\ crawlPc' = "wait"
  /\ UNCHANGED crawlErr
  /\ UNCHANGED <<maxDepth, fetcherVars, got, ret, result, li, seed, workers,
                 results, closed, indexed, web, urlsClosed, otherVars, fetchCount, discarded,
                 earlyExit,
                 reqAge, reqGap>>

\* Crawl, up to wg.Wait(): NewParser(startURL), whose error Crawl returns;
\* AddURL(startURL, 0); wg.Add(1) and go c.worker for each worker;
\* go c.processResults
Crawl_Start ==
  /\ crawlPc = "start"
  /\ IF url_Parse(seed).err
       THEN /\ crawlErr' = "parse"
            /\ crawlPc' = "returned"
            /\ UNCHANGED <<urls, visited, depth, pc, wg, cpc, enqCount, firstOffer,
                           lastCall, everFull>>
       ELSE /\ AddURL(seed, 0)
            /\ AddURLHistory(seed, 0)
            /\ wg' = workers
            /\ pc' = [g \in Goroutines |-> IF g <= workers THEN "poll" ELSE "off"]
            /\ cpc' = "running"
            /\ crawlPc' = "wait"
            /\ UNCHANGED crawlErr
  /\ UNCHANGED <<maxDepth, fetcherVars, got, ret, result, li, seed, workers,
                 results, closed, indexed, web, urlsClosed, otherVars, fetchCount, discarded,
                 earlyExit,
                 reqAge, reqGap>>

\* Crawl closing the channel without wg.Wait()
Crawl_Finish_NoWait ==
  /\ crawlPc = "wait"
  /\ closed' = TRUE
  /\ crawlPc' = "returned"
  /\ UNCHANGED <<frontierVars, fetcherVars, goVars, seed, workers, crawlErr, wg,
                 results, cpc, indexed, web, otherVars, histVars>>

\* Crawl: wg.Wait() returns, close(results), return nil
Crawl_Finish ==
  /\ crawlPc = "wait"
  /\ wg = 0
  /\ closed' = TRUE
  /\ crawlPc' = "returned"
  /\ UNCHANGED <<frontierVars, fetcherVars, goVars, seed, workers, crawlErr, wg,
                 results, cpc, indexed, web, otherVars, histVars>>

\* worker: url, depth, ok := c.frontier.GetURL(), the receive; when the queue
\* is empty the worker goes to sleep 100ms before it polls again
Worker_Poll(w) ==
  /\ pc[w] = "poll"
  /\ GetURL_Receive(w, "retry")
  /\ ret' = IF urls_Ready THEN ret ELSE [ret EXCEPT ![w] = GetURL_Empty]
  /\ UNCHANGED <<visited, depth, maxDepth, fetcherVars, result, li, crawlVars, web, urlsClosed,
                 otherVars, histVars>>

\* worker: GetURL's depth read and return
Worker_PollDepth(w) ==
  /\ GetURL_Depth(w, "fetch")
  /\ ret' = [ret EXCEPT ![w] = GetURL_Return(w)]
  /\ UNCHANGED <<frontierVars, fetcherVars, result, li, crawlVars, web, otherVars, histVars>>

\* whether a worker other than w holds a URL it has not finished with
OtherBusy(w) ==
  \E v \in Goroutines \ {w} :
    pc[v] \in {"getDepth", "fetch", "fetchSleep", "fetchRequest", "fetched", "addLinks"}

\* worker, after the sleep, never giving up
Worker_Retry_NoExit(w) ==
  /\ pc[w] = "retry"
  /\ IF Len(urls) > 0
       THEN /\ urls' = Tail(urls)
            /\ discarded' = discarded \cup {Head(urls)}
       ELSE UNCHANGED <<urls, discarded>>
  /\ pc' = [pc EXCEPT ![w] = "poll"]
  /\ UNCHANGED <<visited, depth, maxDepth, fetcherVars, got, ret, result, li, seed,
                 workers, crawlPc, crawlErr, wg, results, closed, cpc, indexed, web,
                 urlsClosed, otherVars,
                 enqCount, firstOffer, lastCall, fetchCount, everFull, earlyExit,
                 reqAge, reqGap>>

\* worker, after time.Sleep(100ms): _, _, stillOk := c.frontier.GetURL(); a URL
\* received here is dropped (its depth read changes nothing) and the worker
\* polls again; on an empty queue the worker breaks, and wg.Done() runs
Worker_Retry(w) ==
  /\ pc[w] = "retry"
  /\ IF Len(urls) > 0
       THEN /\ urls' = Tail(urls)
            /\ discarded' = discarded \cup {Head(urls)}
            /\ pc' = [pc EXCEPT ![w] = "poll"]
            /\ UNCHANGED <<wg, earlyExit>>
       ELSE IF urlsClosed
         THEN /\ pc' = [pc EXCEPT ![w] = "poll"]
              /\ UNCHANGED <<urls, discarded, wg, earlyExit>>
         ELSE /\ pc' = [pc EXCEPT ![w] = "done"]
              /\ wg' = wg - 1
              /\ earlyExit' = (earlyExit \/ OtherBusy(w))
              /\ UNCHANGED <<urls, discarded>>
  /\ UNCHANGED <<visited, depth, maxDepth, fetcherVars, got, ret, result, li, seed,
                 workers, crawlPc, crawlErr, results, closed, cpc, indexed, web, urlsClosed,
                 otherVars,
                 enqCount, firstOffer, lastCall, fetchCount, everFull, reqAge, reqGap>>

\* worker: result := c.fetcher.Fetch(url), up to the rate limiter
Worker_Fetch(w) ==
  /\ pc[w] = "fetch"
  /\ Fetch_Enter(w, ret[w].url, "fetched")
  /\ result' = [result EXCEPT ![w] = Fetch_Start(ret[w].url)]
  /\ fetchCount' = [fetchCount EXCEPT ![ret[w].url] = @ + 1]
  /\ UNCHANGED <<frontierVars, got, ret, li, crawlVars, web, otherVars, enqCount, firstOffer,
                 lastCall, discarded, everFull, earlyExit, reqAge, reqGap>>

\* worker: Fetch's sleep under f.mu ends
Worker_FetchWake(w) ==
  /\ Fetch_Wake(w)
  /\ UNCHANGED <<frontierVars, got, ret, result, li, crawlVars, web, otherVars, histVars>>

\* worker: Fetch's request, and Fetch returns
Worker_FetchRequest(w) ==
  /\ Fetch_Request(w, "fetched")
  /\ result' = [result EXCEPT ![w] = Fetch_Response(w)]
  /\ UNCHANGED <<frontierVars, got, ret, li, crawlVars, web, otherVars, histVars>>

\* worker giving up when a fetch ends in StatusError
Worker_Extract_BreakOnError(w) ==
  /\ pc[w] = "fetched"
  /\ IF result[w].Status = StatusFetched
       THEN LET links == Parser_Parse(result[w].Content, ret[w].url) IN
            /\ result' = [result EXCEPT ![w].Links = links]
            /\ li' = [li EXCEPT ![w] = 1]
            /\ pc' = [pc EXCEPT ![w] = IF links = <<>> THEN "report" ELSE "addLinks"]
            /\ UNCHANGED wg
       ELSE IF result[w].Status = StatusError
         THEN /\ pc' = [pc EXCEPT ![w] = "done"]
              /\ wg' = wg - 1
              /\ UNCHANGED <<result, li>>
         ELSE /\ pc' = [pc EXCEPT ![w] = "report"]
              /\ UNCHANGED <<result, li, wg>>
  /\ UNCHANGED <<frontierVars, fetcherVars, got, ret, seed, workers, crawlPc, crawlErr,
                 results, closed, cpc, indexed, web, otherVars, histVars>>

\* worker offering the target of a redirect to the frontier
Worker_Extract_FollowRedirect(w) ==
  /\ pc[w] = "fetched"
  /\ IF result[w].Status = StatusFetched
       THEN LET links == Parser_Parse(result[w].Content, ret[w].url) IN
            /\ result' = [result EXCEPT ![w].Links = links]
            /\ li' = [li EXCEPT ![w] = 1]
            /\ pc' = [pc EXCEPT ![w] = IF links = <<>> THEN "report" ELSE "addLinks"]
       ELSE IF result[w].Status = StatusRedirect
         THEN /\ result' = [result EXCEPT ![w].Links = <<result[w].RedirectURL>>]
              /\ li' = [li EXCEPT ![w] = 1]
              /\ pc' = [pc EXCEPT ![w] = "addLinks"]
         ELSE /\ pc' = [pc EXCEPT ![w] = "report"]
              /\ UNCHANGED <<result, li>>
  /\ UNCHANGED <<frontierVars, fetcherVars, got, ret, crawlVars, web, otherVars, histVars>>

\* worker: if result.Status == StatusFetched, links := c.parser.Parse(...) and
\* result.Links = links, then the loop over links; else straight to the send
Worker_Extract(w) ==
  /\ pc[w] = "fetched"
  /\ IF result[w].Status = StatusFetched
       THEN LET links == Parser_Parse(result[w].Content, ret[w].url) IN
            /\ result' = [result EXCEPT ![w].Links = links]
            /\ li' = [li EXCEPT ![w] = 1]
            /\ pc' = [pc EXCEPT ![w] = IF links = <<>> THEN "report" ELSE "addLinks"]
       ELSE /\ pc' = [pc EXCEPT ![w] = "report"]
            /\ UNCHANGED <<result, li>>
  /\ UNCHANGED <<frontierVars, fetcherVars, got, ret, crawlVars, web, otherVars, histVars>>

\* worker offering the links at the depth of the page they were found on
Worker_AddLink_SameDepth(w) ==
  /\ pc[w] = "addLinks"
  /\ AddURL(result[w].Links[li[w]], ret[w].depth)
  /\ AddURLHistory(result[w].Links[li[w]], ret[w].depth)
  /\ li' = [li EXCEPT ![w] = @ + 1]
  /\ pc' = [pc EXCEPT ![w] = IF li[w] = Len(result[w].Links) THEN "report" ELSE "addLinks"]
  /\ UNCHANGED <<maxDepth, fetcherVars, got, ret, result, crawlVars, web, urlsClosed, otherVars,
                 fetchCount, discarded, earlyExit, reqAge, reqGap>>

\* worker: one round of the loop, c.frontier.AddURL(link, depth+1)
Worker_AddLink(w) ==
  /\ pc[w] = "addLinks"
  /\ AddURL(result[w].Links[li[w]], ret[w].depth + 1)
  /\ AddURLHistory(result[w].Links[li[w]], ret[w].depth + 1)
  /\ li' = [li EXCEPT ![w] = @ + 1]
  /\ pc' = [pc EXCEPT ![w] = IF li[w] = Len(result[w].Links) THEN "report" ELSE "addLinks"]
  /\ UNCHANGED <<maxDepth, fetcherVars, got, ret, result, crawlVars, web, urlsClosed, otherVars,
                 fetchCount, discarded, earlyExit, reqAge, reqGap>>

\* worker with a blocking send of the result
Worker_Report_BlockingSend(w) ==
  /\ pc[w] = "report"
  /\ IF closed
       THEN /\ pc' = [pc EXCEPT ![w] = "panic"]
            /\ UNCHANGED results
       ELSE /\ Len(results) < ResultsCap
            /\ results' = Append(results, result[w])
            /\ pc' = [pc EXCEPT ![w] = "poll"]
  /\ ret' = [ret EXCEPT ![w] = GetURL_Empty]
  /\ result' = [result EXCEPT ![w] = NoResult]
  /\ li' = [li EXCEPT ![w] = 0]
  /\ everFull' = IF Len(results') = ResultsCap
                   THEN everFull \cup {"results"} ELSE everFull
  /\ UNCHANGED <<frontierVars, fetcherVars, got, seed, workers,
                 crawlPc, crawlErr, wg, closed, cpc, indexed, web, otherVars, enqCount,
                 firstOffer, lastCall, fetchCount, discarded, earlyExit, reqAge, reqGap>>

\* worker: the non-blocking send of the result; a full channel drops it
\* (a send on a closed channel panics); the loop body ends, and with it the
\* scope of url, depth, ok, result and links
Worker_Report(w) ==
  /\ pc[w] = "report"
  /\ IF closed
       THEN /\ pc' = [pc EXCEPT ![w] = "panic"]
            /\ UNCHANGED results
       ELSE /\ results' = IF Len(results) < ResultsCap
                            THEN Append(results, result[w]) ELSE results
            /\ pc' = [pc EXCEPT ![w] = "poll"]
  /\ ret' = [ret EXCEPT ![w] = GetURL_Empty]
  /\ result' = [result EXCEPT ![w] = NoResult]
  /\ li' = [li EXCEPT ![w] = 0]
  /\ everFull' = IF Len(results') = ResultsCap
                   THEN everFull \cup {"results"} ELSE everFull
  /\ UNCHANGED <<frontierVars, fetcherVars, got, seed, workers,
                 crawlPc, crawlErr, wg, closed, cpc, indexed, web, otherVars, enqCount,
                 firstOffer, lastCall, fetchCount, discarded, earlyExit, reqAge, reqGap>>

\* processResults handing each result to the indexer twice
ProcessResults_Index_Twice ==
  /\ cpc = "running"
  /\ Len(results) > 0
  /\ indexed' = indexed (+) SetToBag({Head(results)}) (+) SetToBag({Head(results)})
  /\ results' = Tail(results)
  /\ UNCHANGED <<frontierVars, fetcherVars, goVars, seed, workers, crawlPc, crawlErr,
                 wg, closed, cpc, web, otherVars, histVars>>

\* processResults: one round of for result := range results, c.indexer.Index
ProcessResults_Index ==
  /\ cpc = "running"
  /\ Len(results) > 0
  /\ indexed' = indexed (+) SetToBag({Head(results)})
  /\ results' = Tail(results)
  /\ UNCHANGED <<frontierVars, fetcherVars, goVars, seed, workers, crawlPc, crawlErr,
                 wg, closed, cpc, web, otherVars, histVars>>

\* processResults: the range loop ends on the closed, drained channel
ProcessResults_Exit ==
  /\ cpc = "running"
  /\ Len(results) = 0
  /\ closed
  /\ cpc' = "done"
  /\ UNCHANGED <<frontierVars, fetcherVars, goVars, seed, workers, crawlPc, crawlErr,
                 wg, results, closed, indexed, web, otherVars, histVars>>

\* time passes during the crawl
Crawl_Tick ==
  /\ Aged(rateLimiter) # rateLimiter
  /\ Tick
  /\ UNCHANGED <<fmu, frontierVars, goVars, crawlVars, web, otherVars, histVars>>

CrawlInit ==
  /\ \E md \in 1..MaxDepthBound, n \in 1..MaxWorkers : NewCrawler(md, n)
  /\ seed \in Seeds
  /\ web \in Webs
  /\ NoGoroutines
  /\ NoHistory
  /\ OthersOff

WorkerNext(w) ==
  \/ Worker_Poll(w)
  \/ Worker_PollDepth(w)
  \/ Worker_Retry(w)
  \/ Worker_Fetch(w)
  \/ Worker_FetchWake(w)
  \/ Worker_FetchRequest(w)
  \/ Worker_Extract(w)
  \/ Worker_AddLink(w)
  \/ Worker_Report(w)

CrawlNext ==
  \/ Crawl_Start
  \/ Crawl_Finish
  \/ \E w \in Goroutines : WorkerNext(w)
  \/ ProcessResults_Index
  \/ ProcessResults_Exit
  \/ Crawl_Tick

CrawlSpec == CrawlInit /\ [][CrawlNext]_vars

\* the Go scheduler runs every goroutine that can run (the one in Crawl, each
\* worker, the one in processResults), and time passes
CrawlFairness ==
  /\ WF_vars(Crawl_Start \/ Crawl_Finish)
  /\ \A w \in Goroutines : WF_vars(WorkerNext(w))
  /\ WF_vars(ProcessResults_Index \/ ProcessResults_Exit)
  /\ WF_vars(Crawl_Tick)

FairCrawlSpec == CrawlInit /\ [][CrawlNext]_vars /\ CrawlFairness

\* the scheduler runs Crawl and every worker, and time passes; nothing is
\* assumed of processResults, which may never receive
StalledSinkFairness ==
  /\ WF_vars(Crawl_Start \/ Crawl_Finish)
  /\ \A w \in Goroutines : WF_vars(WorkerNext(w))
  /\ WF_vars(Crawl_Tick)

StalledSinkSpec == CrawlInit /\ [][CrawlNext]_vars /\ StalledSinkFairness

(***************************************************************************)
(* FetchSpec: every goroutine calls Fetch with any raw URL, again and      *)
(* again, while time passes.                                               *)
(***************************************************************************)
FetchInit ==
  /\ NewCrawler(1, MaxWorkers)
  /\ seed = EmptyString
  /\ web \in Webs
  /\ NoGoroutines
  /\ NoHistory
  /\ OthersOff

\* a goroutine calls Fetch(rawURL)
CallFetch(g, rawURL) ==
  /\ pc[g] = "off"
  /\ Fetch_Enter(g, rawURL, "off")
  /\ IF url_Parse(rawURL).err
       THEN /\ lastCall' = [op |-> "Fetch", ret |-> Fetch_Start(rawURL)]
            /\ UNCHANGED result
       ELSE /\ result' = [result EXCEPT ![g] = Fetch_Start(rawURL)]
            /\ lastCall' = [op |-> "Fetch.enter"]
  /\ UNCHANGED <<frontierVars, got, ret, li, crawlVars, web, otherVars, enqCount, firstOffer,
                 fetchCount, discarded, everFull, earlyExit, reqAge, reqGap>>

\* the goroutine's sleep under f.mu ends
WakeFetch(g) ==
  /\ Fetch_Wake(g)
  /\ lastCall' = [op |-> "Fetch.wake"]
  /\ UNCHANGED <<frontierVars, got, ret, result, li, crawlVars, web, otherVars, enqCount,
                 firstOffer, fetchCount, discarded, everFull, earlyExit, reqAge, reqGap>>

\* the goroutine issues its HTTP request, and Fetch returns; the history
\* keeps the time since the host's previous request
RequestFetch(g) ==
  LET h == URL_Hostname(url_Parse(result[g].URL)) IN
  /\ Fetch_Request(g, "off")
  /\ lastCall' = [op |-> "Fetch", ret |-> Fetch_Response(g)]
  /\ result' = [result EXCEPT ![g] = NoResult]
  /\ reqGap' = IF MapHas(reqAge, h)
                 THEN MapPut(reqGap, h, IF MapHas(reqGap, h)
                                          THEN Min(reqGap[h], reqAge[h]) ELSE reqAge[h])
                 ELSE reqGap
  /\ reqAge' = MapPut(reqAge, h, 0)
  /\ UNCHANGED <<frontierVars, got, ret, li, crawlVars, web, otherVars, enqCount, firstOffer,
                 fetchCount, discarded, everFull, earlyExit>>

\* time passes
Fetch_Tick ==
  /\ Aged(rateLimiter) # rateLimiter \/ Aged(reqAge) # reqAge
  /\ Tick
  /\ reqAge' = Aged(reqAge)
  /\ lastCall' = [op |-> "tick"]
  /\ UNCHANGED <<fmu, frontierVars, goVars, crawlVars, web, otherVars, enqCount, firstOffer,
                 fetchCount, discarded, everFull, earlyExit, reqGap>>

FetchNext ==
  \/ \E g \in Goroutines :
       \/ \E rawURL \in RawURLs : CallFetch(g, rawURL)
       \/ WakeFetch(g)
       \/ RequestFetch(g)
  \/ Fetch_Tick

FetchSpec == FetchInit /\ [][FetchNext]_vars

(***************************************************************************)
(* FrontierSpec: every goroutine calls AddURL and GetURL in any order,     *)
(* with any raw URL and any depth.                                         *)
(***************************************************************************)
FrontierInit ==
  /\ \E md \in 1..MaxDepthBound : NewCrawler(md, MaxWorkers)
  /\ seed = EmptyString
  /\ web = WebTree
  /\ NoGoroutines
  /\ NoHistory
  /\ OthersOff

\* a goroutine that is not inside GetURL calls AddURL(rawURL, d); the call is
\* one step under uf.mu and leaves nothing of the caller behind, unless its
\* send panics
CallAddURL(rawURL, d) ==
  /\ \E g \in Goroutines :
       /\ pc[g] = "off"
       /\ pc' = IF AddURL_Panics(rawURL, d) THEN [pc EXCEPT ![g] = "panic"] ELSE pc
  /\ AddURL(rawURL, d)
  /\ AddURLHistory(rawURL, d)
  /\ UNCHANGED <<maxDepth, urlsClosed, fetcherVars, got, ret, result, li, crawlVars, web,
                 otherVars, fetchCount, discarded, earlyExit, reqAge, reqGap>>

\* a goroutine calls GetURL: the receive
CallGetURL(g) ==
  /\ pc[g] = "off"
  /\ GetURL_Receive(g, "off")
  /\ lastCall' = IF urls_Ready THEN [op |-> "GetURL.receive"]
                 ELSE [op |-> "GetURL", ret |-> GetURL_Empty]
  /\ UNCHANGED <<visited, depth, maxDepth, fetcherVars, ret, result, li, crawlVars, web,
                 urlsClosed, otherVars,
                 enqCount, firstOffer, fetchCount, discarded, everFull, earlyExit,
                 reqAge, reqGap>>

\* the goroutine's GetURL reads the depth and returns
ReturnGetURL(g) ==
  /\ GetURL_Depth(g, "off")
  /\ lastCall' = [op |-> "GetURL", ret |-> GetURL_Return(g)]
  /\ UNCHANGED <<frontierVars, fetcherVars, ret, result, li, crawlVars, web, otherVars,
                 enqCount, firstOffer, fetchCount, discarded, everFull, earlyExit,
                 reqAge, reqGap>>

FrontierNext ==
  \/ \E rawURL \in RawURLs, d \in 0..MaxDepthBound : CallAddURL(rawURL, d)
  \/ \E g \in Goroutines : CallGetURL(g)
  \/ \E g \in Goroutines : ReturnGetURL(g)

FrontierSpec == FrontierInit /\ [][FrontierNext]_vars

(***************************************************************************)
(* CloseSpec: the goroutines call AddURL, GetURL and Close in any order.   *)
(* The program itself calls Close nowhere.                                 *)
(***************************************************************************)
\* a goroutine that is not inside GetURL calls Close()
CallClose(g) ==
  /\ pc[g] = "off"
  /\ Close(g)
  /\ lastCall' = [op |-> "Close"]
  /\ UNCHANGED <<urls, visited, depth, maxDepth, fetcherVars, got, ret, result, li,
                 crawlVars, web, otherVars, enqCount, firstOffer, fetchCount,
                 discarded, everFull, earlyExit, reqAge, reqGap>>

\* a panic that nothing recovers ends the process
Running == \A g \in Goroutines : pc[g] # "panic"

CloseNext ==
  \/ Running /\ FrontierNext
  \/ Running /\ \E g \in Goroutines : CallClose(g)

CloseSpec == FrontierInit /\ [][CloseNext]_vars

(***************************************************************************)
(* The email queue of src/05-message-broker/email-queue: a producer        *)
(* publishes jobs to the exchange emails, the consumer (src/unnamed/       *)
(* part_018) sends each delivery over SMTP and republishes a failed one to *)
(* the retry queue or to the dead-letter queue, and RabbitMQ moves the     *)
(* messages of the retry queue back once their TTL is over.                *)
(***************************************************************************)
headerAttempts == "x-attempts"
maxAttempts == 5

\* most jobs the producer publishes
MaxJobs == 2
Jobs == 1..MaxJobs

\* header values of the Go types getAttempts tells apart; a string is the
\* sequence of its characters
Int32(n) == [type |-> "int32", val |-> n]
GoString(chars) == [type |-> "string", val |-> chars]
Digits == <<"0", "1", "2", "3", "4", "5", "6", "7", "8", "9">>
DigitValue(c) == (CHOOSE i \in DOMAIN Digits : Digits[i] = c) - 1

\* strconv.Atoi on an unsigned decimal: the number, or an error
RECURSIVE Atoi(_)
Atoi(chars) ==
  IF chars = <<>>
    THEN [n |-> 0, err |-> TRUE]
    ELSE LET last == chars[Len(chars)]
             front == SubSeq(chars, 1, Len(chars) - 1)
         IN IF \A i \in DOMAIN Digits : Digits[i] # last
              THEN [n |-> 0, err |-> TRUE]
              ELSE IF front = <<>>
                     THEN [n |-> DigitValue(last), err |-> FALSE]
                     ELSE [n |-> 10 * Atoi(front).n + DigitValue(last),
                           err |-> Atoi(front).err]

\* the body json.Marshal makes of an EmailJob, and bytes that are not JSON
JobBody == [json |-> TRUE]
BadPayload == [json |-> FALSE]
json_Unmarshal(body) == [err |-> ~body.json]

\* a nil amqp.Table and an empty one are the table without keys
NoHeaders == EmptyMap

getAttempts(h) ==
  IF headerAttempts \in DOMAIN h
    THEN LET v == h[headerAttempts]
         IN IF v.type \in {"int32", "int64", "int"}
              THEN v.val
              ELSE IF v.type = "string" /\ ~Atoi(v.val).err
                     THEN Atoi(v.val).n
                     ELSE 0
    ELSE 0

\* the message retry and deadLetter publish for the delivery d
Republished(d, attempts) ==
  [d EXCEPT !.Headers = (headerAttempts :> Int32(attempts)) @@ d.Headers]

\* publishes to emails.dlx with routing key "retry": queue emails.retry
retry(d, attempts) ==
  /\ retryQueue' = Append(retryQueue, Republished(d, attempts))
  /\ retried' = [retried EXCEPT ![d.id] = @ + 1]
  /\ UNCHANGED dlq

\* publishes to emails.dlx with routing key "dead": queue emails.dlq
deadLetter(d, attempts) ==
  /\ dlq' = Append(dlq, Republished(d, attempts))
  /\ UNCHANGED <<retryQueue, retried>>

\* producer/main.go: one job, x-attempts 0, to exchange emails with key "send"
Producer_Publish ==
  /\ jobs < MaxJobs
  /\ jobs' = jobs + 1
  /\ primary' = Append(primary, [id |-> jobs + 1, Body |-> JobBody,
                                 Headers |-> headerAttempts :> Int32(0)])
  /\ UNCHANGED <<retryQueue, dlq, failed, retried>>
  /\ UNCHANGED <<crawlerVars, collyVars>>

\* the consumer's loop body for the next delivery of emails.primary; sent is
\* whether sendSMTP returns nil
Consumer_Handle ==
  /\ primary # <<>>
  /\ LET d == Head(primary)
         attempts == getAttempts(d.Headers)
     IN /\ primary' = Tail(primary)
        /\ IF json_Unmarshal(d.Body).err
             THEN /\ deadLetter(d, attempts + 1)
                  /\ UNCHANGED failed
             ELSE \E sent \in BOOLEAN :
                    IF ~sent
                      THEN /\ failed' = [failed EXCEPT ![d.id] = @ + 1]
                           /\ IF attempts + 1 >= maxAttempts
                                THEN deadLetter(d, attempts + 1)
                                ELSE retry(d, attempts + 1)
                      ELSE UNCHANGED <<retryQueue, dlq, failed, retried>>
  /\ UNCHANGED jobs
  /\ UNCHANGED <<crawlerVars, collyVars>>

\* the x-message-ttl of emails.retry is over for its oldest message: it is
\* dead-lettered to exchange emails with routing key "send"
Retry_Expire ==
  /\ retryQueue # <<>>
  /\ primary' = Append(primary, Head(retryQueue))
  /\ retryQueue' = Tail(retryQueue)
  /\ UNCHANGED <<dlq, jobs, failed, retried>>
  /\ UNCHANGED <<crawlerVars, collyVars>>

\* what other publishers may have left in the durable queue emails.primary
ForeignMessages ==
  {[id |-> 0, Body |-> b, Headers |-> h] :
     b \in {JobBody, BadPayload},
     h \in {NoHeaders, headerAttempts :> GoString(<<"3">>),
            headerAttempts :> GoString(<<"x">>)}}

CrawlerOff ==
  /\ NewCrawler(1, 1)
  /\ seed = EmptyString
  /\ web = WebTree
  /\ NoGoroutines
  /\ NoHistory

EmailInit ==
  /\ primary \in {<<>>} \cup {<<m>> : m \in ForeignMessages}
  /\ retryQueue = <<>>
  /\ dlq = <<>>
  /\ jobs = 0
  /\ failed = [i \in {0} \cup Jobs |-> 0]
  /\ retried = [i \in {0} \cup Jobs |-> 0]
  /\ CrawlerOff
  /\ NoColly

EmailNext ==
  \/ Producer_Publish
  \/ Consumer_Handle
  \/ Retry_Expire

EmailSpec == EmailInit /\ [][EmailNext]_vars

(***************************************************************************)
(* The Colly crawler of src/08-advanced-crawler/crawler.go.  A string is   *)
(* the sequence of its pieces (a URL's scheme, its slashes, the labels of  *)
(* its host, its path segments; a text's words), so that strings.Contains, *)
(* strings.HasPrefix and strings.Count are computed on what they read.     *)
(* The collector is not Async: Visit fetches and runs the callbacks on the *)
(* calling goroutine before it returns.                                    *)
(***************************************************************************)
\* largest maxPages a crawl is submitted with
MaxPagesBound == 2
\* the content kept per result, in pieces (500 bytes in the "html" callback)
ContentCap == 3

strings_HasPrefix(s, prefix) ==
  Len(prefix) <= Len(s) /\ SubSeq(s, 1, Len(prefix)) = prefix

strings_Contains(s, substr) ==
  \E i \in 0..(Len(s) - Len(substr)) : SubSeq(s, i + 1, i + Len(substr)) = substr

strings_Count(s, piece) == Cardinality({i \in DOMAIN s : s[i] = piece})

LowerPiece(c) ==
  CASE c = "GO" -> "go" [] c = "Go" -> "go" [] c = "Home" -> "home"
    [] c = "News" -> "news" [] c = "Rust" -> "rust" [] OTHER -> c
strings_ToLower(s) == [i \in DOMAIN s |-> LowerPiece(s[i])]

Https == <<"https:", "/", "/">>
HomeA == Https \o <<"a.com">>
ArticleA == HomeA \o <<"/", "news", "/", "1">>
AboutA == HomeA \o <<"/", "about">>
HomeB == Https \o <<"www.", "b.org">>
ExternalC == Https \o <<"c.net", "/", "x", "/", "y">>

\* the host of a URL: its pieces between "//" and the next "/"
RECURSIVE UpToSlash(_)
UpToSlash(s) ==
  IF s = <<>> \/ Head(s) = "/" THEN <<>> ELSE <<Head(s)>> \o UpToSlash(Tail(s))
URL_Host(u) == UpToSlash(SubSeq(u, Len(Https) + 1, Len(u)))

\* e.Request.AbsoluteURL(link) for an absolute link and for a rooted path
AbsoluteURL(base, link) ==
  IF strings_HasPrefix(link, Https)
    THEN link
    ELSE Https \o URL_Host(base) \o link

HtmlPage(title, body, hrefs) == [title |-> title, body |-> body, hrefs |-> hrefs]

\* a home page without any keyword that links to an article with one
SiteArticle ==
  (HomeA :> HtmlPage(<<"Home">>, <<"welcome">>,
                     <<<<"#", "top">>, ExternalC, <<"/", "news", "/", "1">>>>))
  @@ (ArticleA :> HtmlPage(<<"Go", "lang">>, <<"News">>, <<>>))
  @@ (HomeB :> HtmlPage(<<"b">>, <<"rust", "and", "GO", "more">>, <<>>))

\* a home page with a keyword whose article does not answer
SiteBroken ==
  (HomeA :> HtmlPage(<<"Home">>, <<"GO", "news">>,
                     <<<<"/", "about">>, HomeA, <<>>, <<"/", "news", "/", "1">>>>))
  @@ (HomeB :> HtmlPage(<<"b">>, <<"nothing">>, <<HomeA \o <<"/", "news", "/", "1">>>>))

\* home pages without a link to follow
SitePlain ==
  (HomeA :> HtmlPage(<<"a">>, <<"welcome">>, <<<<"mailto:", "me">>, AboutA>>))
  @@ (HomeB :> HtmlPage(<<"Go">>, <<"rust", "and", "more">>, <<>>))

Sites == {SiteArticle, SiteBroken, SitePlain}
KeywordLists == {<<>>, <<<<"go">>>>, <<<<"Rust">>, <<"GO">>>>}
DomainLists == {<<<<"a.com">>>>, <<<<"a.com">>, <<"www.", "b.org">>>>}

\* NewAdvancedCrawler: each domain with and without its www. label
RECURSIVE expandedDomains(_)
expandedDomains(domains) ==
  IF domains = <<>>
    THEN <<>>
    ELSE LET domain == Head(domains)
         IN <<domain,
              IF strings_HasPrefix(domain, <<"www.">>)
                THEN Tail(domain)
                ELSE <<"www.">> \o domain>>
            \o expandedDomains(Tail(domains))

NewAdvancedCrawler(domains, kws, mp) ==
  /\ keywords = kws
  /\ maxPages = mp
  /\ allowedDomains = expandedDomains(domains)
  /\ pageCount = 0
  /\ visitedURLs = {}
  /\ acMu = FALSE
  /\ job = [Status |-> "running", Progress |-> 0, TotalResults |-> 0, Results |-> <<>>]
  /\ collyVisited = {}

isAllowedDomain(urlStr) ==
  \E i \in DOMAIN allowedDomains : strings_Contains(urlStr, allowedDomains[i])

hasVisited(urlStr) == urlStr \in visitedURLs

\* the collector takes a request: the host is one of its AllowedDomains and
\* the URL was not requested before
CollyAccepts(u) ==
  /\ \E i \in DOMAIN allowedDomains : allowedDomains[i] = URL_Host(u)
  /\ u \notin collyVisited

\* the keywords found in the title or the body, in the order of ac.keywords
RECURSIVE foundKeywords(_, _, _)
foundKeywords(kws, contentLower, titleLower) ==
  IF kws = <<>>
    THEN <<>>
    ELSE LET keywordLower == strings_ToLower(Head(kws))
         IN (IF \/ strings_Contains(contentLower, keywordLower)
                \/ strings_Contains(titleLower, keywordLower)
               THEN <<Head(kws)>>
               ELSE <<>>)
            \o foundKeywords(Tail(kws), contentLower, titleLower)

\* Start's loop: collector.Visit of the next domain's home page, up to the
\* response; a rejected or failed request returns at once
Start_Visit ==
  /\ acPc = "start"
  /\ domIdx < Len(startDomains)
  /\ LET domain == startDomains[domIdx + 1]
         u == IF Head(domain) \in {"http:", "https:"} THEN domain ELSE Https \o domain
     IN /\ domIdx' = domIdx + 1
        /\ IF CollyAccepts(u)
             THEN /\ collyVisited' = collyVisited \cup {u}
                  /\ IF u \in DOMAIN site
                       THEN acPc' = "html" /\ request' = u
                       ELSE UNCHANGED <<acPc, request>>
             ELSE UNCHANGED <<collyVisited, acPc, request>>
  /\ UNCHANGED <<keywords, maxPages, allowedDomains, pageCount, visitedURLs, acMu, job,
                 startDomains, linkIdx, site>>
  /\ UNCHANGED <<crawlerVars, mailVars>>

\* the "html" callback of the response; ac.mu is locked and unlocked in it
OnHTML_html ==
  /\ acPc = "html"
  /\ ~acMu
  /\ visitedURLs' = visitedURLs \cup {request}
  /\ pageCount' = pageCount + 1
  /\ IF pageCount' > maxPages
       THEN UNCHANGED job
       ELSE LET title == site[request].title
                content == site[request].body
                found == foundKeywords(keywords, strings_ToLower(content),
                                       strings_ToLower(title))
                res == [URL |-> request, Title |-> title,
                        Content |-> SubSeq(content, 1, Min(ContentCap, Len(content))),
                        Domain |-> URL_Host(request), Keywords |-> found,
                        StatusCode |-> 200]
            IN job' = [job EXCEPT !.Results = Append(@, res),
                                  !.TotalResults = Len(job.Results) + 1,
                                  !.Progress = (pageCount' * 100) \div maxPages]
  /\ acPc' = "links"
  /\ linkIdx' = 1
  /\ UNCHANGED <<keywords, maxPages, allowedDomains, acMu, startDomains, domIdx, request,
                 collyVisited, site>>
  /\ UNCHANGED <<crawlerVars, mailVars>>

\* the "a[href]" callback of the response's next link; e.Request.Visit runs
\* inside it, with ac.mu held: when the linked page answers, its "html"
\* callback waits for ac.mu on the goroutine that holds it
OnHTML_a ==
  /\ acPc = "links"
  /\ linkIdx <= Len(site[request].hrefs)
  /\ ~acMu
  /\ LET link == site[request].hrefs[linkIdx]
         absoluteURL == AbsoluteURL(request, link)
         follows ==
           /\ pageCount < maxPages
           /\ link # <<>>
           /\ Head(link) \notin {"#", "javascript:", "mailto:", "tel:"}
           /\ isAllowedDomain(absoluteURL)
           /\ ~hasVisited(absoluteURL)
           /\ absoluteURL # request
           /\ strings_Count(absoluteURL, "/") > 3
     IN IF follows /\ CollyAccepts(absoluteURL)
          THEN /\ collyVisited' = collyVisited \cup {absoluteURL}
               /\ IF absoluteURL \in DOMAIN site
                    THEN acMu' = TRUE /\ acPc' = "blocked" /\ UNCHANGED linkIdx
                    ELSE linkIdx' = linkIdx + 1 /\ UNCHANGED <<acMu, acPc>>
          ELSE linkIdx' = linkIdx + 1 /\ UNCHANGED <<acMu, acPc, collyVisited>>
  /\ UNCHANGED <<keywords, maxPages, allowedDomains, pageCount, visitedURLs, job,
                 startDomains, domIdx, request, site>>
  /\ UNCHANGED <<crawlerVars, mailVars>>

\* the callbacks of the response are over: collector.Visit returns to Start
Visit_Return ==
  /\ acPc = "links"
  /\ linkIdx > Len(site[request].hrefs)
  /\ acPc' = "start"
  /\ request' = <<>>
  /\ UNCHANGED <<keywords, maxPages, allowedDomains, pageCount, visitedURLs, acMu, job,
                 startDomains, domIdx, linkIdx, collyVisited, site>>
  /\ UNCHANGED <<crawlerVars, mailVars>>

\* Start after its loop: collector.Wait, then the job is marked completed
Start_Finish ==
  /\ acPc = "start"
  /\ domIdx = Len(startDomains)
  /\ job' = [job EXCEPT !.Status = "completed", !.Progress = 100]
  /\ acPc' = "done"
  /\ UNCHANGED <<keywords, maxPages, allowedDomains, pageCount, visitedURLs, acMu,
                 startDomains, domIdx, request, linkIdx, collyVisited, site>>
  /\ UNCHANGED <<crawlerVars, mailVars>>

\* submitCrawl: NewAdvancedCrawler(...) and go crawler.Start(req.Domains)
CollyInit ==
  /\ \E domains \in DomainLists, kws \in KeywordLists, mp \in 1..MaxPagesBound :
       /\ NewAdvancedCrawler(domains, kws, mp)
       /\ startDomains = domains
  /\ site \in Sites
  /\ acPc = "start"
  /\ domIdx = 0
  /\ request = <<>>
  /\ linkIdx = 0
  /\ CrawlerOff
  /\ NoMail

CollyNext ==
  \/ Start_Visit
  \/ OnHTML_html
  \/ OnHTML_a
  \/ Visit_Return
  \/ Start_Finish

CollySpec == CollyInit /\ [][CollyNext]_vars

(***************************************************************************)
(* Claims about the URLFrontier (FrontierSpec)                             *)
(***************************************************************************)
\* the step just taken was an AddURL call
WasAddURL == lastCall.op = "AddURL"
IsAddURLStep == lastCall'.op = "AddURL"

\* C1: each normalized URL is sent on the pending queue at most once over the
\* frontier's lifetime, and an AddURL of a URL that is already visited (queued
\* or already dequeued) changes neither the queue, nor visited, nor depth.
C1_EnqueuedAtMostOnce ==
  /\ [](\A u \in NormURLs : enqCount[u] <= 1)
  /\ [][(IsAddURLStep /\ lastCall'.dup) => UNCHANGED <<urls, visited, depth>>]_vars

\* a duplicate AddURL of a URL that GetURL has already handed out
C1_Witness ==
  /\ WasAddURL /\ lastCall.dup
  /\ enqCount[lastCall.url] = 1
  /\ Count(urls, lastCall.url) = 0
  /\ \A g \in Goroutines : got[g] # lastCall.url

\* C2: the depth recorded for a URL is that of the first AddURL accepted for
\* it (the first one offered below maxDepth) and never changes; it is recorded
\* before the URL can be dequeued, and GetURL returns exactly it.
C2_FirstDepthWins ==
  /\ [](/\ \A u \in DOMAIN depth : depth[u] = firstOffer[u]
        /\ \A i \in DOMAIN urls : MapHas(depth, urls[i])
        /\ \A g \in Goroutines : pc[g] = "getDepth" => MapHas(depth, got[g])
        /\ (lastCall.op = "GetURL" /\ lastCall.ret.ok) =>
             lastCall.ret.depth = firstOffer[lastCall.ret.url])
  /\ [][\A u \in DOMAIN depth : MapHas(depth', u) /\ depth'[u] = depth[u]]_vars

\* a later AddURL offered the URL at a smaller depth while a GetURL that has
\* received the URL has yet to read its depth
C2_Witness ==
  /\ WasAddURL /\ lastCall.dup
  /\ lastCall.depth < depth[lastCall.url]
  /\ firstOffer[lastCall.url] = depth[lastCall.url]
  /\ \E g \in Goroutines : pc[g] = "getDepth" /\ got[g] = lastCall.url

\* C3: every URL in the pending queue, and every (url, depth) GetURL returns
\* with ok, has depth < maxDepth; an AddURL at depth >= maxDepth leaves the
\* queue as it is; maxDepth never changes.
C3_DepthCeiling ==
  /\ [](/\ \A i \in DOMAIN urls : MapInt(depth, urls[i]) < maxDepth
        /\ (lastCall.op = "GetURL" /\ lastCall.ret.ok) => lastCall.ret.depth < maxDepth)
  /\ [][/\ maxDepth' = maxDepth
        /\ (IsAddURLStep /\ lastCall'.depth >= maxDepth) => urls' = urls]_vars

\* a fresh, well-formed URL was offered at depth >= maxDepth and is neither
\* queued nor visited
C3_Witness ==
  /\ WasAddURL /\ ~lastCall.err /\ ~lastCall.dup
  /\ lastCall.depth >= maxDepth
  /\ Count(urls, lastCall.url) = 0
  /\ ~MapBool(visited, lastCall.url)

\* C9: the queue never holds more than its capacity; whenever a goroutine is
\* free to call AddURL the call can complete, whatever its arguments and
\* whatever the queue holds (it never waits for a consumer); an AddURL that
\* finds the queue full leaves it unchanged.
C9_AddURLNeverBlocks ==
  /\ [](/\ Len(urls) <= QueueCap
        /\ (\E g \in Goroutines : pc[g] = "off") =>
             \A rawURL \in RawURLs, d \in 0..MaxDepthBound :
               ENABLED CallAddURL(rawURL, d))
  /\ [][(IsAddURLStep /\ lastCall'.full) => urls' = urls]_vars

\* a fresh URL below maxDepth was offered to a full queue: it was marked
\* visited and dropped
C9_Witness ==
  /\ WasAddURL /\ lastCall.full /\ ~lastCall.err /\ ~lastCall.dup
  /\ lastCall.depth < maxDepth
  /\ Len(urls) = QueueCap
  /\ Count(urls, lastCall.url) = 0
  /\ MapBool(visited, lastCall.url)

(***************************************************************************)
(* Claims about Crawl (CrawlSpec, FairCrawlSpec)                           *)
(***************************************************************************)
\* Crawl has returned nil and processResults has drained the channel
CrawlOver == crawlPc = "returned" /\ crawlErr = "nil" /\ cpc = "done"

\* the end-to-end scenario: maxDepth 1, two workers, a root page with two
\* links to pages without links
Scenario == maxDepth = 1 /\ workers = 2 /\ web = WebTree /\ ~url_Parse(seed).err

\* the results handed to the sink for url
IndexedFor(u) == {r \in BagToSet(indexed) : r.URL = u}

\* C4 as stated: in the scenario the crawl fetches the root once and each of
\* the two linked pages once, and delivers exactly 3 results, all Fetched.
C4_ScenarioAsStated ==
  (Scenario /\ CrawlOver) =>
    /\ fetchCount[RootURL] = 1 /\ fetchCount[Child1] = 1 /\ fetchCount[Child2] = 1
    /\ BagCardinality(indexed) = 3
    /\ \A r \in BagToSet(indexed) : r.Status = StatusFetched

\* C4 amended: in the scenario the two links are offered at depth 1 = maxDepth
\* and rejected, so the crawl fetches the root once and nothing else, and
\* delivers exactly 1 result, with status Fetched and both links in it.
C4_ScenarioRootOnly ==
  Scenario =>
    /\ fetchCount[RootURL] <= 1 /\ fetchCount[Child1] = 0 /\ fetchCount[Child2] = 0
    /\ CrawlOver =>
         /\ fetchCount[RootURL] = 1
         /\ BagCardinality(indexed) = 1
         /\ \A r \in BagToSet(indexed) :
              r.URL = RootURL /\ r.Status = StatusFetched /\ r.Links = <<Child1, Child2>>

\* the scenario has run to its end and the root's result is with the sink
C4_Witness ==
  /\ Scenario /\ CrawlOver
  /\ IndexedFor(RootURL) # {}
  /\ lastCall.op = "AddURL" /\ lastCall.url = Child2 /\ lastCall.depth = 1

\* C5: when neither channel ever held its full capacity, every URL that was
\* put into the pending queue has been fetched and its result handed to the
\* sink by the time the crawl is over.
C5_NoWorkLost ==
  (CrawlOver /\ everFull = {}) =>
    \A u \in NormURLs : enqCount[u] > 0 => (fetchCount[u] > 0 /\ IndexedFor(u) # {})

\* C6: when every worker has exited (wg is back to 0, so Crawl can return)
\* the pending queue is empty.
C6_NoStrandedURLs ==
  (crawlPc \in {"wait", "returned"} /\ \A w \in 1..workers : pc[w] = "done")
    => Len(urls) = 0

\* all workers have exited, one of them while another still held a URL, and
\* links were enqueued during the crawl
C6_Witness ==
  /\ crawlPc = "returned" /\ crawlErr = "nil"
  /\ workers >= 2 /\ \A w \in 1..workers : pc[w] = "done"
  /\ earlyExit
  /\ enqCount[Child1] = 1 /\ enqCount[Child2] = 1
  /\ Len(urls) = 0

\* C7: under fair scheduling Crawl returns and every worker has exited, for
\* every web (cyclic ones too), maxDepth and pool size; no URL is enqueued
\* more than once, which bounds the URLs ever enqueued.
C7_CrawlTerminates ==
  /\ <>(crawlPc = "returned" /\ \A w \in 1..workers : pc[w] \in {"off", "done"})
  /\ [](\A u \in NormURLs : enqCount[u] <= 1)

\* a crawl of the cyclic web has returned after fetching the page that links
\* back to the root
C7_Witness ==
  /\ web = WebLoop /\ maxDepth >= 2
  /\ crawlPc = "returned" /\ crawlErr = "nil"
  /\ fetchCount[Child1] = 1
  /\ \A w \in 1..workers : pc[w] = "done"

\* C8: Fetch is invoked at most once for any normalized URL during a crawl.
C8_SingleAttempt ==
  \A u \in NormURLs : fetchCount[u] <= 1

\* a URL whose fetch ended in Error or Redirect was offered to AddURL again
\* afterwards, and has still been fetched once
C8_Witness ==
  /\ lastCall.op = "AddURL" /\ lastCall.dup
  /\ \E r \in IndexedFor(lastCall.url) : r.Status \in {StatusError, StatusRedirect}
  /\ fetchCount[lastCall.url] = 1

\* a result with one terminal status and only the fields of that status
Terminal(r) ==
  /\ r.Status \in {StatusFetched, StatusError, StatusRedirect}
  /\ r.Links # <<>> => r.Status = StatusFetched
  /\ r.RedirectURL # EmptyString => r.Status = StatusRedirect
  /\ r.Error # "nil" <=> r.Status = StatusError

\* C13: every result Fetch returned to a worker, every result in the results
\* channel and every result handed to the sink has exactly one terminal
\* status (never Pending), Links only when Fetched, RedirectURL only when
\* Redirect, and an Error exactly when the status is Error.
C13_ResultInvariants ==
  /\ \A w \in Goroutines :
       pc[w] \in {"fetched", "addLinks", "report"} => Terminal(result[w])
  /\ \A i \in 1..Len(results) : Terminal(results[i])
  /\ \A r \in BagToSet(indexed) : Terminal(r)

\* the sink holds a Fetched result with links, a Redirect result with its
\* target and a Fetched result of a followed redirect
C13_Witness ==
  /\ web = WebCodes
  /\ \E r \in IndexedFor(RootURL) : r.Status = StatusFetched /\ r.Links # <<>>
  /\ \E r \in IndexedFor(Child1) : r.Status = StatusRedirect /\ r.RedirectURL = Child2
  /\ \E r \in IndexedFor(Child2) : r.Status = StatusFetched /\ r.Links # <<>>

\* no host of the web answers
AllFetchesFail == \A u \in DOMAIN web : web[u].kind = "neterr"

\* the crawl has returned nil, the sink has every result, and every URL that
\* was put into the queue has one result, with StatusError
AllReportedAsErrors ==
  /\ CrawlOver
  /\ results = <<>>
  /\ \A u \in NormURLs : enqCount[u] > 0 =>
       \E r \in IndexedFor(u) : r.Status = StatusError /\ r.Error = "net"
  /\ \A r \in BagToSet(indexed) : r.Status = StatusError

C15_SeedParseError ==
  crawlPc = "returned" =>
    /\ crawlErr # "nil" <=> url_Parse(seed).err
    /\ crawlErr # "nil" =>
         /\ urls = <<>> /\ visited = EmptyMap /\ depth = EmptyMap
         /\ \A g \in Goroutines : pc[g] = "off"
         /\ cpc = "off" /\ wg = 0 /\ results = <<>> /\ ~closed
         /\ \A u \in NormURLs : fetchCount[u] = 0 /\ enqCount[u] = 0
         /\ rateLimiter = EmptyMap

\* Crawl has returned the parse error of a malformed seed
C15_Witness ==
  crawlPc = "returned" /\ crawlErr = "parse" /\ seed = BadURL

\* the workers that hold url between GetURL's receive and their call of Fetch
Holding(u) ==
  {w \in Goroutines : \/ pc[w] = "getDepth" /\ got[w] = u
                      \/ pc[w] = "fetch" /\ ret[w].url = u}

\* C18: a URL that a worker's GetURL returned, at the first poll or at the
\* poll after the wait, is the URL the worker calls Fetch on next: every URL
\* that left the queue is held by a worker about to fetch it or was fetched.
C18_PollThenFetch ==
  \A u \in NormURLs :
    enqCount[u] = Count(urls, u) + Cardinality(Holding(u)) + fetchCount[u]

\* C19: the send of a result never blocks: a worker at the send can always
\* take its step and goes back to polling, a full channel is left as it is,
\* and the crawl ends even when processResults never receives.
C19_ReportNeverBlocks ==
  /\ <>(crawlPc = "returned")
  /\ [](/\ Len(results) <= ResultsCap
        /\ \A w \in Goroutines : pc[w] = "report" => ENABLED Worker_Report(w))
  /\ [][\A w \in Goroutines :
          (pc[w] = "report" /\ pc'[w] # "report") =>
            /\ pc'[w] = "poll"
            /\ Len(results) = ResultsCap => results' = results]_vars

\* Crawl has returned though processResults never received: the channel is
\* full and a result was dropped
C19_Witness ==
  /\ crawlPc = "returned" /\ indexed = EmptyBag
  /\ Len(results) = ResultsCap
  /\ fetchCount[RootURL] + fetchCount[Child1] + fetchCount[Child2] > ResultsCap

\* C20: the results channel is closed once, by Crawl after wg.Wait(), when
\* every worker has finished; no worker sends on the closed channel.
C20_CloseAfterWorkers ==
  /\ [](/\ \A w \in Goroutines : pc[w] # "panic"
        /\ closed => (wg = 0 /\ \A w \in 1..workers : pc[w] = "done"))
  /\ [][/\ closed => UNCHANGED <<closed, crawlPc>>
        /\ (~closed /\ closed') => (crawlPc = "wait" /\ crawlPc' = "returned")]_vars

\* the channel is closed after two workers that reported results have exited
C20_Witness ==
  /\ closed /\ workers = 2
  /\ \A w \in 1..workers : pc[w] = "done"
  /\ fetchCount[RootURL] = 1 /\ fetchCount[Child1] = 1
  /\ BagCardinality(indexed) + Len(results) >= 2

(***************************************************************************)
(* Claims about the Fetcher (FetchSpec)                                    *)
(***************************************************************************)
\* C10: any two HTTP requests to the same hostname are issued at least Delay
\* apart.
C10_RequestsSpaced ==
  \A h \in DOMAIN reqGap : reqGap[h] >= Delay

\* C11: pacing is per host: while a goroutine's Fetch serves the rate-limit
\* delay of one hostname, a Fetch of a URL of another hostname can go ahead.
C11_PerHostPacing ==
  \A g \in Goroutines : pc[g] = "fetchSleep" =>
    \A g2 \in Goroutines, rawURL \in RawURLs :
      (/\ pc[g2] = "off"
       /\ ~url_Parse(rawURL).err
       /\ URL_Hostname(url_Parse(rawURL)) # URL_Hostname(url_Parse(result[g].URL)))
      => ENABLED CallFetch(g2, rawURL)

\* what the server answers to the GET of the URL of the Fetch that returned
ServerAnswer == web[URL_String(url_Parse(lastCall.ret.URL))]

\* a Fetch has returned after its request
FetchAnswered ==
  lastCall.op = "Fetch" /\ ~url_Parse(lastCall.ret.URL).err /\ ServerAnswer.kind = "ok"

\* C12: a response with a status code in [300,400) yields StatusRedirect, the
\* Location header as RedirectURL and no Content; a response with another
\* status code whose body is read yields StatusFetched, the body as Content
\* and the status code; Fetch leaves Links unset in both cases.
C12_StatusClassification ==
  FetchAnswered =>
    /\ lastCall.ret.Links = <<>>
    /\ IF ServerAnswer.code >= 300 /\ ServerAnswer.code < 400
         THEN /\ lastCall.ret.Status = StatusRedirect
              /\ lastCall.ret.RedirectURL = ServerAnswer.location
              /\ lastCall.ret.Content = <<>>
         ELSE /\ lastCall.ret.Status = StatusFetched
              /\ lastCall.ret.Content = ServerAnswer.body
              /\ lastCall.ret.StatusCode = ServerAnswer.code

(***************************************************************************)
(* Claims about the email queue (EmailSpec)                                *)
(***************************************************************************)
\* the messages of a queue that the producer published
ProducedIn(queue) == {i \in DOMAIN queue : queue[i].id \in Jobs}

\* C16: a message whose SMTP send fails on every delivery is retried 5 times,
\* each retry a publish to the retry queue with x-attempts one higher, and is
\* published to the dead-letter queue only after exceeding that maximum: a
\* produced message in the dead-letter queue has been published to the retry
\* queue maxAttempts times.
C16_RetriedMaxAttemptsTimes ==
  \A i \in ProducedIn(dlq) : retried[dlq[i].id] = maxAttempts

(***************************************************************************)
(* Claims about the Colly crawler (CollySpec)                              *)
(***************************************************************************)
\* C17: every result stored in the job's Results has a non-empty list of
\* matched keywords: a page whose title and body contain none of the
\* requested keywords is never stored.
C17_OnlyKeywordPagesStored ==
  \A i \in DOMAIN job.Results : job.Results[i].Keywords # <<>>

(***************************************************************************)
(* Further claims about the URLFrontier (FrontierSpec)                     *)
(***************************************************************************)
\* u was offered to AddURL below maxDepth and has never been sent on urls:
\* its first such offer met a full queue
Dropped(u) == firstOffer[u] # None /\ enqCount[u] = 0

\* C21: a URL that AddURL dropped on a full queue is marked visited with the
\* depth of that call recorded; it stays out of the queue and is never handed
\* out by GetURL afterwards, and every later AddURL of it changes nothing,
\* whatever space the queue has by then.
C21_DroppedIsNeverQueued ==
  /\ [](\A u \in NormURLs : Dropped(u) =>
          /\ MapBool(visited, u)
          /\ MapHas(depth, u) /\ depth[u] = firstOffer[u]
          /\ Count(urls, u) = 0
          /\ \A g \in Goroutines : got[g] # u)
  /\ [][\A u \in NormURLs : Dropped(u) => Dropped(u)']_vars
  /\ [][(IsAddURLStep /\ ~lastCall'.err /\ Dropped(lastCall'.url))
          => UNCHANGED <<urls, visited, depth>>]_vars

\* a dropped URL was offered again, below maxDepth, to a queue with space
C21_Witness ==
  /\ WasAddURL /\ ~lastCall.err /\ ~lastCall.full
  /\ lastCall.depth < maxDepth
  /\ Dropped(lastCall.url)
  /\ Len(urls) < QueueCap

(***************************************************************************)
(* Further claims about Crawler.Crawl (CrawlSpec, FairCrawlSpec)           *)
(***************************************************************************)
\* the worker w holds the result of a Fetch that did not end in StatusFetched
HoldsUnfetched(w) == pc[w] = "fetched" /\ result[w].Status # StatusFetched

\* C22: only a Fetched result expands the frontier: a worker whose Fetch
\* returned Error or Redirect goes straight to the send of the result, with
\* the frontier and the result as they were, and a worker calls AddURL only
\* for the links of a Fetched result.
C22_OnlyFetchedExpands ==
  /\ [][\A w \in Goroutines : (HoldsUnfetched(w) /\ pc'[w] # pc[w]) =>
          /\ pc'[w] = "report"
          /\ result'[w] = result[w]
          /\ UNCHANGED <<frontierVars, enqCount>>]_vars
  /\ [](\A w \in Goroutines : pc[w] = "addLinks" =>
          /\ result[w].Status = StatusFetched
          /\ result[w].RedirectURL = EmptyString)

\* a worker is about to send a Redirect result that carries its target and
\* no links
C22_Witness ==
  /\ \E w \in Goroutines :
       /\ pc[w] = "report"
       /\ result[w].Status = StatusRedirect
       /\ result[w].RedirectURL # EmptyString
       /\ result[w].Links = <<>>

\* the seed as AddURL records it
SeedURL == URL_String(url_Parse(seed))

\* the links a worker extracts from what a Fetch of u returns
LinksOf(u) ==
  LET resp == client_Do(u, 1) IN
  IF resp.kind = "ok" /\ ~(resp.code >= 300 /\ resp.code < 400)
    THEN {Parser_Parse(resp.body, u)[i] : i \in DOMAIN Parser_Parse(resp.body, u)}
    ELSE {}

\* there is a path of n links from the seed to u
RECURSIVE PathOfLength(_, _)
PathOfLength(u, n) ==
  IF n = 0
    THEN u = SeedURL
    ELSE \E v \in NormURLs : u \in LinksOf(v) /\ PathOfLength(v, n - 1)

\* the length of the shortest link path from the seed to u, None without one
Distance(u) ==
  IF \E n \in 0..MaxDepthBound : PathOfLength(u, n)
    THEN CHOOSE n \in 0..MaxDepthBound :
           PathOfLength(u, n) /\ \A k \in 0..(n - 1) : ~PathOfLength(u, k)
    ELSE None

\* C23: Crawl adds the seed at depth 0 and a worker offers every link of a
\* page it dequeued at depth d to AddURL at depth d+1; so the depth recorded
\* for a URL is the length of a link path from the seed to it, and never less
\* than its shortest link distance from the seed.
C23_DepthAlongLinks ==
  /\ [][(Crawl_Start /\ ~url_Parse(seed).err) =>
          /\ IsAddURLStep
          /\ lastCall'.depth = 0 /\ lastCall'.url = SeedURL]_vars
  /\ [][\A w \in Goroutines : Worker_AddLink(w) =>
          /\ IsAddURLStep
          /\ lastCall'.depth = ret[w].depth + 1
          /\ ret[w].depth = MapInt(depth, ret[w].url)
          /\ lastCall'.err \/ lastCall'.url \in LinksOf(ret[w].url)]_vars
  /\ [][depth' # depth => (Crawl_Start \/ \E w \in Goroutines : Worker_AddLink(w))]_vars
  /\ [](\A u \in DOMAIN depth :
          /\ PathOfLength(u, depth[u])
          /\ Distance(u) # None /\ depth[u] >= Distance(u))

\* a worker has just had a link of the seed's page recorded at depth 1
C23_Witness ==
  /\ WasAddURL /\ ~lastCall.err /\ ~lastCall.dup
  /\ lastCall.depth = 1
  /\ MapHas(depth, lastCall.url) /\ depth[lastCall.url] = 1
  /\ lastCall.url # SeedURL
  /\ MapHas(depth, SeedURL) /\ depth[SeedURL] = 0

\* a worker's send put its result at the end of the results channel
ResultSent ==
  \E w \in Goroutines :
    /\ pc[w] = "report"
    /\ results' = Append(results, result[w])
    /\ indexed' = indexed

\* the oldest result left the channel and was handed to Indexer.Index once
ResultIndexed ==
  /\ results # <<>>
  /\ results' = Tail(results)
  /\ indexed' = indexed (+) SetToBag({Head(results)})

\* C24: each result a worker places on the results channel is handed to
\* Indexer.Index exactly once: the channel and the sink change only by a
\* worker's send or by the hand-over of the oldest result to the sink (none
\* is indexed twice, none leaves the channel unindexed), and under fair
\* scheduling of processResults a result waiting in the channel is indexed.
C24_IndexedExactlyOnce ==
  /\ [][(results' # results \/ indexed' # indexed) => (ResultSent \/ ResultIndexed)]_vars
  /\ \A n \in 0..Cardinality(NormURLs) :
       (results # <<>> /\ BagCardinality(indexed) = n) ~> (BagCardinality(indexed) > n)
  /\ [](cpc = "done" => results = <<>>)

\* the sink has been handed three different results, each once, and the
\* consumer is through
C24_Witness ==
  /\ cpc = "done"
  /\ results = <<>>
  /\ BagCardinality(indexed) = 3
  /\ Cardinality(BagToSet(indexed)) = 3

(***************************************************************************)
(* Further claims about the Fetcher (FetchSpec)                            *)
(***************************************************************************)
\* C25: a Fetch of a URL that does not parse returns at once with StatusError
\* and the parse error, issues no HTTP request and leaves the rate limiter
\* as it was: no instant is recorded, f.mu is not taken and no delay is
\* served, so the call returns even while another Fetch sleeps under f.mu.
C25_ParseErrorTouchesNothing ==
  /\ [][\A g \in Goroutines, rawURL \in RawURLs :
          (CallFetch(g, rawURL) /\ url_Parse(rawURL).err) =>
            /\ lastCall'.op = "Fetch"
            /\ lastCall'.ret.URL = rawURL
            /\ lastCall'.ret.Status = StatusError
            /\ lastCall'.ret.Error = "parse"
            /\ lastCall'.ret.StatusCode = 0
            /\ lastCall'.ret.Content = <<>>
            /\ pc'[g] = "off"
            /\ UNCHANGED <<rateLimiter, fmu, reqAge, reqGap>>]_vars
  /\ [](\A g \in Goroutines, rawURL \in RawURLs :
          (pc[g] = "off" /\ url_Parse(rawURL).err) => ENABLED CallFetch(g, rawURL))

\* a Fetch of a malformed URL has returned while another goroutine's Fetch
\* sleeps under f.mu
C25_Witness ==
  /\ lastCall.op = "Fetch"
  /\ lastCall.ret.Status = StatusError /\ lastCall.ret.Error = "parse"
  /\ \E g \in Goroutines : pc[g] = "fetchSleep" /\ fmu = g
  /\ rateLimiter # EmptyMap

\* C26: when Crawl returns, the sink has accepted every result the workers
\* placed on the results channel: none is still buffered, and processResults
\* is not in the middle of its loop.
C26_SinkDoneAtReturn ==
  (crawlPc = "returned" /\ crawlErr = "nil") => (results = <<>> /\ cpc = "done")

\* no AddURL of this crawl has met a full queue with a URL it accepted
NothingDropped == \A u \in NormURLs : MapBool(visited, u) => enqCount[u] = 1

\* C27: with one worker and a pending queue that never fills, every URL that
\* AddURL accepted has been fetched exactly once when Crawl returns: the
\* worker's retry poll always finds the queue empty, so it never discards a
\* URL, and no URL is fetched twice.
C27_SingleWorkerFetchesAll ==
  workers = 1 =>
    /\ discarded = {}
    /\ pc[1] = "retry" => urls = <<>>
    /\ \A u \in NormURLs : fetchCount[u] <= 1
    /\ (crawlPc = "returned" /\ crawlErr = "nil" /\ NothingDropped) =>
         \A u \in NormURLs : MapBool(visited, u) => fetchCount[u] = 1

\* the crawl of a single worker has returned with three URLs accepted and
\* each of them fetched once
C27_Witness ==
  /\ workers = 1
  /\ crawlPc = "returned" /\ crawlErr = "nil"
  /\ NothingDropped
  /\ \A u \in NormURLs : MapBool(visited, u) /\ fetchCount[u] = 1

\* the URLs a worker has called Fetch on
FetchedURLs == {u \in NormURLs : fetchCount[u] > 0}

\* the URLs with a link path from the seed that is shorter than maxDepth:
\* what a crawl fetches when every accepted URL is fetched, as the crawl of
\* a single worker does
Coverage == {u \in NormURLs : \E n \in 0..(maxDepth - 1) : PathOfLength(u, n)}

\* C28: for a fixed link graph, seed and maxDepth and a pending queue that
\* never fills, a crawl with two or more workers fetches the same set of URLs
\* in every interleaving of the workers: the set such a crawl fetches when no
\* worker is ever ahead of another, which is Coverage.
C28_SameCoverage ==
  (crawlPc = "returned" /\ crawlErr = "nil" /\ workers >= 2 /\ NothingDropped)
    => FetchedURLs = Coverage

\* the step just taken was an AddURL that returned before any write: the URL
\* did not parse, or currentDepth >= maxDepth
RejectedStep == IsAddURLStep /\ (lastCall'.err \/ lastCall'.depth >= maxDepth)

\* an AddURL of a spelling of u at depth 0 that puts u at the end of the queue
AcceptedNext(u) ==
  \E rawURL \in RawURLs :
    /\ ~url_Parse(rawURL).err /\ URL_String(url_Parse(rawURL)) = u
    /\ CallAddURL(rawURL, 0)
    /\ urls' = Append(urls, u)
    /\ MapBool(visited', u) /\ depth'[u] = 0

\* C29: an AddURL rejected because the URL does not parse or because
\* currentDepth >= maxDepth leaves visited, depth and the queue unchanged; the
\* URL is not marked visited by it, so an AddURL of a URL that is not visited,
\* below maxDepth and with space in the queue, marks it, records the depth
\* and enqueues it, whatever was rejected before.
C29_RejectionLeavesNoTrace ==
  /\ [][RejectedStep => UNCHANGED <<urls, visited, depth>>]_vars
  /\ [][(IsAddURLStep /\ ~lastCall'.err /\ ~lastCall'.dup /\ ~lastCall'.full
           /\ lastCall'.depth < maxDepth) =>
          /\ urls' = Append(urls, lastCall'.url)
          /\ visited' = MapPut(visited, lastCall'.url, TRUE)
          /\ depth' = MapPut(depth, lastCall'.url, lastCall'.depth)]_vars
  /\ [](\A u \in NormURLs :
          (~MapBool(visited, u) /\ Len(urls) < QueueCap /\ \E g \in Goroutines : pc[g] = "off")
            => ENABLED AcceptedNext(u))

\* an AddURL of a well-formed URL was just rejected for its depth; the URL is
\* not visited and an AddURL of it at depth 0 would now enqueue it
C29_Witness ==
  /\ WasAddURL /\ ~lastCall.err /\ ~lastCall.dup
  /\ lastCall.depth >= maxDepth
  /\ ~MapBool(visited, lastCall.url)
  /\ Count(urls, lastCall.url) = 0
  /\ Len(urls) < QueueCap
  /\ ENABLED AcceptedNext(lastCall.url)


(***************************************************************************)
(* Claims about URLFrontier.Close (CloseSpec)                              *)
(***************************************************************************)
\* C30: after Close, the URLs pending at the time of Close leave the queue one
\* by one, each into one GetURL call, which returns it with its recorded
\* depth; a GetURL call that finds the closed queue drained returns ok=false,
\* and no GetURL call returns ok=true with an empty URL.
C30_GetURLAfterClose ==
  /\ [][urlsClosed =>
          /\ urlsClosed'
          /\ \/ urls' = urls
             \/ /\ urls # <<>>
                /\ urls' = Tail(urls)
                /\ \E g \in Goroutines :
                     pc[g] = "off" /\ pc'[g] = "getDepth" /\ got'[g] = Head(urls)]_vars
  /\ [][\A g \in Goroutines : (urlsClosed /\ ReturnGetURL(g)) =>
          /\ got[g] # EmptyString
          /\ MapHas(depth, got[g])
          /\ lastCall'.ret = [url |-> got[g], depth |-> depth[got[g]], ok |-> TRUE]]_vars
  /\ [][\A g \in Goroutines : (urlsClosed /\ urls = <<>> /\ CallGetURL(g)) =>
          /\ lastCall' = [op |-> "GetURL", ret |-> GetURL_Empty]
          /\ pc'[g] = "off"]_vars
  /\ [](lastCall.op = "GetURL" /\ lastCall.ret.ok => lastCall.ret.url # EmptyString)

=============================================================================
